---- MODULE Spec2Model ----
(***************************************************************************)
(* Monte Carlo estimation of pi (main.py): the estimator mc_method, the    *)
(* sweep driver main and the reporter create_plots, as one sequential      *)
(* state machine.                                                          *)
(*                                                                         *)
(* Numbers.  A coordinate c stands for the real c / Grid, so the square    *)
(* [-1, 1) is the grid Coords x Coords.  An estimate is an exact rational  *)
(* <<num, den>> in lowest terms.  A sample size of the sweep is the real   *)
(* 10^(p / ExpQ), kept as its exponent numerator p.  A deviation is the    *)
(* real pic * pi + rat, kept as the record [pic, rat].                     *)
(***************************************************************************)
EXTENDS Integers, Sequences, FiniteSets, TLC

\* ---------------------------------------------------------------- bounds
\* Coordinates are multiples of 1 / Grid.
Grid == 2
\* Largest n of a direct, seeded invocation of mc_method.
MaxN == 2
\* Number of sample sizes in the sweep (num of np.logspace).
Steps == 4
\* Sweep exponents are multiples of 1 / ExpDen.
ExpDen == 2

\* -------------------------------------------------- constants of main.py
\* min, max = -1, 1
Min == -1
Max == 1
\* np.logspace's base
Base == 10

\* (start, stop) of the sweep, in units of 1 / ExpDen.  main.py sweeps
\* np.logspace(1, 5, 300), 10 to 100000; drawing that many points is out of
\* reach, so the sweep is scaled down to 10^0 .. 10^(1 / ExpDen) in Steps steps,
\* which keeps what matters: neighbouring values less than 1 apart, and int()
\* applied to each.  The range starting below 10^0 is the one in which a sample
\* count of 0 reaches mc_method.
SweepRanges == {<<-1, 1>>, <<0, 1>>}

\* ------------------------------------------------------------ arithmetic
RECURSIVE GCD(_, _)
GCD(a, b) == IF b = 0 THEN a ELSE GCD(b, a % b)

Abs(a) == IF a < 0 THEN -a ELSE a

\* the rational a / b (b > 0) in lowest terms
Rat(a, b) == LET g == GCD(Abs(a), b) IN <<a \div g, b \div g>>

RatLeq(r, s) == r[1] * s[2] <= s[1] * r[2]

RatAdd(r, s) == Rat(r[1] * s[2] + s[1] * r[2], r[2] * s[2])

RECURSIVE Pow(_, _)
Pow(b, e) == IF e = 0 THEN 1 ELSE b * Pow(b, e - 1)

\* ------------------------------------------------------- random source
\* The global generator of np.random: never seeded by main.py, so it starts
\* from operating-system entropy (any draw may come next); once seeded, its
\* state is the stream of values it is going to produce.
Entropy == [seeded |-> FALSE, stream |-> <<>>]

\* np.random.seed(s)
Seeded(s) == [seeded |-> TRUE, stream |-> s]

\* the half-open interval [min, max) of np.random.uniform, on the grid
Coords == (Min * Grid) .. (Max * Grid - 1)

\* faulty variant: draws that ignore the seeded stream
UniformUnseeded(g) == {<<c, g>> : c \in Coords}

\* np.random.uniform(min, max): the possible <<value, next generator state>>
Uniform(g) ==
    IF ~g.seeded THEN {<<c, g>> : c \in Coords}
    ELSE IF g.stream = <<>> THEN {}
    ELSE {<<Head(g.stream), Seeded(Tail(g.stream))>>}

\* ------------------------------------------------------------ mc_method
\* z = np.sqrt(r[0] ** 2 + r[1] ** 2), as the squared distance in grid units
DistSq(r) == r[1] * r[1] + r[2] * r[2]

\* faulty variant: z <= 1
InsideClosed(r) == DistSq(r) <= Grid * Grid

\* if z < 1
Inside(r) == DistSq(r) < Grid * Grid

\* np.transpose([randx, randy])
Transpose(xs, ys) == [j \in 1 .. Len(xs) |-> <<xs[j], ys[j]>>]

\* faulty variant: n / count
DivideSwapped(c, n) ==
    IF c = 0 THEN [ok |-> FALSE, val |-> <<0, 1>>]
    ELSE [ok |-> TRUE, val |-> Rat(n, c)]

\* faulty variant: a division by zero swallowed, giving 0
DivideQuiet(c, n) ==
    IF n = 0 THEN [ok |-> TRUE, val |-> <<0, 1>>]
    ELSE [ok |-> TRUE, val |-> Rat(c, n)]

\* count / n on Python ints: ZeroDivisionError when n = 0
Divide(c, n) ==
    IF n = 0 THEN [ok |-> FALSE, val |-> <<0, 1>>]
    ELSE [ok |-> TRUE, val |-> Rat(c, n)]

\* faulty variant: ratio * 2
TimesTwo(r) == Rat(2 * r[1], r[2])

\* ratio * 4
TimesFour(r) == Rat(4 * r[1], r[2])

\* ----------------------------------------------------------------- main
\* denominator of the sweep's exponents: linspace divides by num - 1
ExpQ == ExpDen * (Steps - 1)

\* np.logspace(start, stop, num): the exponent numerators, over ExpQ
Logspace(start, stop, num) ==
    [j \in 1 .. num |-> start * (num - 1) + (j - 1) * (stop - start)]

\* the largest k >= from with k^ExpQ <= Base^p
RECURSIVE Floor10(_, _)
Floor10(p, from) ==
    IF Pow(from + 1, ExpQ) <= Pow(Base, p) THEN Floor10(p, from + 1) ELSE from

\* the smallest k >= from with Base^p <= k^ExpQ
RECURSIVE Ceil10(_, _)
Ceil10(p, from) ==
    IF Pow(from, ExpQ) < Pow(Base, p) THEN Ceil10(p, from + 1) ELSE from

\* faulty variant: rounding up instead of truncating
ToIntCeil(p) == IF p < 0 THEN 1 ELSE Ceil10(p, 1)

\* int(n) of the float 10^(p / ExpQ) > 0: truncation toward zero
ToInt(p) == IF p < 0 THEN 0 ELSE Floor10(p, 1)

\* faulty variant: estimate - true_pi
EstimateMinusPi(e) == [pic |-> -1, rat |-> e]

\* true_pi - estimate
PiMinus(e) == [pic |-> 1, rat |-> <<-e[1], e[2]>>]

\* faulty variant: pi_est.insert(0, pi)
Prepend(s, e) == <<e>> \o s

\* pi_est.append(pi)
ListAppend(s, e) == Append(s, e)

Ev(name, v) == [ev |-> name, val |-> v]

NoFrame == [n |-> <<>>, estimate |-> <<>>, deviation |-> <<>>]

\* ------------------------------------------------------------------ state
VARIABLES
    entry,      \* what was invoked, with its arguments
    pc,         \* position of the caller (main, or the seeded double run)
    exit,       \* process exit status: -1 while running
    exc,        \* the uncaught exception, if any
    out,        \* observable events: prints, the saved image, the display
    rng,        \* state of np.random's global generator
    mpc,        \* position inside mc_method
    mc_n, randx, randy, t_rand, idx, count, ratio, pi,   \* mc_method's locals
    ret,        \* value mc_method returned
    calls,      \* history: one record per invocation of mc_method
    test_n, it, pi_est, df,                               \* main's locals
    results     \* estimates collected by the seeded double run

mcLocals == <<mc_n, randx, randy, t_rand, idx, count, ratio, pi>>
mainLocals == <<test_n, it, pi_est, df>>
vars == <<entry, pc, exit, exc, out, rng, mpc, mcLocals, ret, calls, mainLocals, results>>

\* main(), with the sweep's range as its (here fixed) parameters
MainEntry(start, stop) ==
    [fn |-> "main", start |-> start, stop |-> stop, n |-> 0, seed |-> <<>>]

\* mc_method(n), run twice, each time from the generator state seed
TestEntry(n, seed) ==
    [fn |-> "test", start |-> 0, stop |-> 0, n |-> n, seed |-> seed]

Init ==
    /\ \/ \E r \in SweepRanges : entry = MainEntry(r[1], r[2])
       \/ \E m \in 0 .. MaxN : \E s \in [1 .. 2 * m -> Coords] : entry = TestEntry(m, s)
    /\ pc = "start"
    /\ exit = -1
    /\ exc = "none"
    /\ out = <<>>
    /\ rng = Entropy
    /\ mpc = "idle"
    /\ mc_n = 0 /\ randx = <<>> /\ randy = <<>> /\ t_rand = <<>>
    /\ idx = 0 /\ count = 0 /\ ratio = <<0, 1>> /\ pi = <<0, 1>>
    /\ ret = <<0, 1>>
    /\ calls = <<>>
    /\ test_n = <<>> /\ it = 0 /\ pi_est = <<>> /\ df = NoFrame
    /\ results = <<>>

\* ------------------------------------------------- mc_method, lines 12-50
\* the call mc_method(arg): a fresh frame
Call(arg) ==
    /\ mpc' = "draw"
    /\ mc_n' = arg
    /\ randx' = <<>> /\ randy' = <<>> /\ t_rand' = <<>>
    /\ idx' = 0 /\ count' = 0 /\ ratio' = <<0, 1>> /\ pi' = <<0, 1>>
    /\ calls' = Append(calls, [arg |-> arg, points |-> 0, ret |-> <<>>])

\* line 27: one iteration of the comprehension that builds randx
McDrawX ==
    /\ mpc = "draw"
    /\ Len(randx) < mc_n
    /\ \E d \in Uniform(rng) :
          /\ randx' = Append(randx, d[1])
          /\ rng' = d[2]
    /\ UNCHANGED <<entry, pc, exit, exc, out, mpc, mc_n, randy, t_rand, idx, count,
                   ratio, pi, ret, calls, mainLocals, results>>

\* line 28: one iteration of the comprehension that builds randy
McDrawY ==
    /\ mpc = "draw"
    /\ Len(randx) = mc_n
    /\ Len(randy) < mc_n
    /\ \E d \in Uniform(rng) :
          /\ randy' = Append(randy, d[1])
          /\ rng' = d[2]
    /\ UNCHANGED <<entry, pc, exit, exc, out, mpc, mc_n, randx, t_rand, idx, count,
                   ratio, pi, ret, calls, mainLocals, results>>

\* lines 31-35
McTranspose ==
    /\ mpc = "draw"
    /\ Len(randx) = mc_n
    /\ Len(randy) = mc_n
    /\ t_rand' = Transpose(randx, randy)
    /\ count' = 0
    /\ idx' = 0
    /\ mpc' = "loop"
    /\ UNCHANGED <<entry, pc, exit, exc, out, rng, mc_n, randx, randy, ratio, pi, ret,
                   calls, mainLocals, results>>

\* lines 36-39: one iteration of the loop over t_rand
McLoop ==
    /\ mpc = "loop"
    /\ idx < Len(t_rand)
    /\ idx' = idx + 1
    /\ count' = IF Inside(t_rand[idx + 1]) THEN count + 1 ELSE count
    /\ UNCHANGED <<entry, pc, exit, exc, out, rng, mpc, mc_n, randx, randy, t_rand,
                   ratio, pi, ret, calls, mainLocals, results>>

\* line 42
McRatio ==
    /\ mpc = "loop"
    /\ idx = Len(t_rand)
    /\ Divide(count, mc_n).ok
    /\ ratio' = Divide(count, mc_n).val
    /\ mpc' = "pi"
    /\ UNCHANGED <<entry, pc, exit, exc, out, rng, mc_n, randx, randy, t_rand, idx,
                   count, pi, ret, calls, mainLocals, results>>

\* line 42 raising ZeroDivisionError: neither mc_method nor a caller catches
\* it, so the interpreter ends the process with status 1
McZeroDivision ==
    /\ mpc = "loop"
    /\ idx = Len(t_rand)
    /\ ~Divide(count, mc_n).ok
    /\ exc' = "ZeroDivisionError"
    /\ mpc' = "raised"
    /\ pc' = "aborted"
    /\ exit' = 1
    /\ UNCHANGED <<entry, out, rng, mcLocals, ret, calls, mainLocals, results>>

\* line 47
McPi ==
    /\ mpc = "pi"
    /\ pi' = TimesFour(ratio)
    /\ mpc' = "print"
    /\ UNCHANGED <<entry, pc, exit, exc, out, rng, mc_n, randx, randy, t_rand, idx,
                   count, ratio, ret, calls, mainLocals, results>>

\* faulty variant: the estimate is not printed
McPrintMissing ==
    /\ mpc = "print"
    /\ mpc' = "return"
    /\ UNCHANGED <<entry, pc, exit, exc, out, rng, mcLocals, ret, calls, mainLocals,
                   results>>

\* line 49
McPrint ==
    /\ mpc = "print"
    /\ out' = Append(out, Ev("estimate", pi))
    /\ mpc' = "return"
    /\ UNCHANGED <<entry, pc, exit, exc, rng, mcLocals, ret, calls, mainLocals, results>>

\* line 50: the frame is gone, the caller holds the value
McReturn ==
    /\ mpc = "return"
    /\ ret' = pi
    /\ calls' = [calls EXCEPT ![Len(calls)].points = Len(t_rand),
                               ![Len(calls)].ret = pi]
    /\ mpc' = "returned"
    /\ mc_n' = 0
    /\ randx' = <<>> /\ randy' = <<>> /\ t_rand' = <<>>
    /\ idx' = 0 /\ count' = 0 /\ ratio' = <<0, 1>> /\ pi' = <<0, 1>>
    /\ UNCHANGED <<entry, pc, exit, exc, out, rng, mainLocals, results>>

\* ------------------------------------------------------ main, lines 96-126
\* line 101
MainLogspace ==
    /\ entry.fn = "main"
    /\ pc = "start"
    /\ test_n' = Logspace(entry.start, entry.stop, Steps)
    /\ pc' = "print_sizes"
    /\ UNCHANGED <<entry, exit, exc, out, rng, mpc, mcLocals, ret, calls, it, pi_est,
                   df, results>>

\* lines 102-105
MainPrintSizes ==
    /\ pc = "print_sizes"
    /\ out' = Append(out, Ev("test_n", test_n))
    /\ pi_est' = <<>>
    /\ it' = 0
    /\ pc' = "for"
    /\ UNCHANGED <<entry, exit, exc, rng, mpc, mcLocals, ret, calls, test_n, df, results>>

\* lines 108-109: the next n of test_n, and the call mc_method(int(n))
MainCall ==
    /\ pc = "for"
    /\ it < Len(test_n)
    /\ it' = it + 1
    /\ Call(ToInt(test_n[it + 1]))
    /\ pc' = "call"
    /\ UNCHANGED <<entry, exit, exc, out, rng, ret, test_n, pi_est, df, results>>

\* lines 109-110: pi = <the value returned>; pi_est.append(pi)
MainAppend ==
    /\ entry.fn = "main"
    /\ pc = "call"
    /\ mpc = "returned"
    /\ pi_est' = ListAppend(pi_est, ret)
    /\ mpc' = "idle"
    /\ pc' = "for"
    /\ UNCHANGED <<entry, exit, exc, out, rng, mcLocals, ret, calls, test_n, it, df,
                   results>>

\* lines 113-114, once test_n is exhausted
MainFrame ==
    /\ pc = "for"
    /\ it = Len(test_n)
    /\ df' = [n |-> test_n, estimate |-> pi_est, deviation |-> <<>>]
    /\ pc' = "deviation"
    /\ UNCHANGED <<entry, exit, exc, out, rng, mpc, mcLocals, ret, calls, test_n, it,
                   pi_est, results>>

\* lines 117-118
MainDeviation ==
    /\ pc = "deviation"
    /\ df' = [df EXCEPT !.deviation =
                 [j \in 1 .. Len(df.estimate) |-> PiMinus(df.estimate[j])]]
    /\ pc' = "print_df"
    /\ UNCHANGED <<entry, exit, exc, out, rng, mpc, mcLocals, ret, calls, test_n, it,
                   pi_est, results>>

\* line 121
MainPrintDf ==
    /\ pc = "print_df"
    /\ out' = Append(out, Ev("df", df))
    /\ pc' = "plots"
    /\ UNCHANGED <<entry, exit, exc, rng, mpc, mcLocals, ret, calls, mainLocals, results>>

\* line 124 and create_plots, lines 60-87: the figure is built in memory
CreatePlotsFigure ==
    /\ pc = "plots"
    /\ pc' = "savefig"
    /\ UNCHANGED <<entry, exit, exc, out, rng, mpc, mcLocals, ret, calls, mainLocals,
                   results>>

\* line 90
CreatePlotsSavefig ==
    /\ pc = "savefig"
    /\ out' = Append(out, Ev("savefig", <<"estimation_of_pi.png">>))
    /\ pc' = "show"
    /\ UNCHANGED <<entry, exit, exc, rng, mpc, mcLocals, ret, calls, mainLocals, results>>

\* line 93
CreatePlotsShow ==
    /\ pc = "show"
    /\ out' = Append(out, Ev("show", <<>>))
    /\ pc' = "return"
    /\ UNCHANGED <<entry, exit, exc, rng, mpc, mcLocals, ret, calls, mainLocals, results>>

\* line 126
MainReturn ==
    /\ pc = "return"
    /\ exit' = 0
    /\ pc' = "done"
    /\ UNCHANGED <<entry, exc, out, rng, mpc, mcLocals, ret, calls, mainLocals, results>>

\* ------------------------------------------- mc_method under a fixed seed
\* np.random.seed(s): the generator will produce the stream of s
TestSeed ==
    /\ entry.fn = "test"
    /\ pc = "start"
    /\ rng' = Seeded(entry.seed)
    /\ pc' = "invoke"
    /\ UNCHANGED <<entry, exit, exc, out, mpc, mcLocals, ret, calls, mainLocals, results>>

\* mc_method(n)
TestCall ==
    /\ pc = "invoke"
    /\ Call(entry.n)
    /\ pc' = "call"
    /\ UNCHANGED <<entry, exit, exc, out, rng, ret, mainLocals, results>>

\* keep the estimate; after the second run, stop
TestKeep ==
    /\ entry.fn = "test"
    /\ pc = "call"
    /\ mpc = "returned"
    /\ results' = Append(results, ret)
    /\ mpc' = "idle"
    /\ pc' = IF Len(results) = 0 THEN "start" ELSE "done"
    /\ exit' = IF Len(results) = 0 THEN exit ELSE 0
    /\ UNCHANGED <<entry, exc, out, rng, mcLocals, ret, calls, mainLocals>>

\* ---------------------------------------------------------- specification
McNext ==
    \/ McDrawX \/ McDrawY \/ McTranspose \/ McLoop \/ McRatio \/ McZeroDivision
    \/ McPi \/ McPrint \/ McReturn

MainNext ==
    \/ MainLogspace \/ MainPrintSizes \/ MainCall \/ MainAppend \/ MainFrame
    \/ MainDeviation \/ MainPrintDf
    \/ CreatePlotsFigure \/ CreatePlotsSavefig \/ CreatePlotsShow \/ MainReturn

TestNext == TestSeed \/ TestCall \/ TestKeep

Next == McNext \/ MainNext \/ TestNext

\* every invocation: main(), and mc_method run twice from one seed
Spec == Init /\ [][Next]_vars

\* main() alone.  The program is one thread: it takes its next step whenever
\* it has one.
InitMain == Init /\ entry.fn = "main"

NextMain == McNext \/ MainNext

FairMain == InitMain /\ [][NextMain]_vars /\ WF_vars(NextMain)

\* ================================================================ claims
Zero == <<0, 1>>
Four == <<4, 1>>

\* the invocations of mc_method that have returned
Returned == {j \in 1 .. Len(calls) : calls[j].ret # <<>>}

\* the points of the current frame strictly inside the unit circle
StrictlyInside == {j \in 1 .. Len(randx) :
                      j <= Len(randy) /\ randx[j] * randx[j] + randy[j] * randy[j] < Grid * Grid}

\* the points of the current frame at distance exactly 1 from the origin
OnCircle == {j \in 1 .. Len(randx) :
                j <= Len(randy) /\ randx[j] * randx[j] + randy[j] * randy[j] = Grid * Grid}

\* C1: whatever the draws were, every value mc_method returns (or is about to
\* return) for n >= 1 lies in the closed interval [0, 4].
C1_EstimateInRange ==
    /\ \A j \in Returned :
          calls[j].arg >= 1 => RatLeq(Zero, calls[j].ret) /\ RatLeq(calls[j].ret, Four)
    /\ (mpc = "return" /\ mc_n >= 1) => RatLeq(Zero, pi) /\ RatLeq(pi, Four)
    /\ (mpc = "returned") => RatLeq(Zero, ret) /\ RatLeq(ret, Four)

\* C1 witness: a call with n >= 2 returned the upper end 4, another the lower end 0.
C1_Witness ==
    /\ \E j \in Returned : calls[j].arg >= 2 /\ calls[j].ret = Four
    /\ \E j \in Returned : calls[j].ret = Zero

\* C2: when mc_method(n), n >= 1, returns, it has drawn exactly n points (n x's,
\* n y's, 2n values of the generator) and its value is 4 * count / n, count being
\* the number of those points at distance strictly less than 1 from the origin.
C2_EstimateIsFourTimesRatio ==
    (mpc = "return" /\ mc_n >= 1) =>
        /\ Len(randx) = mc_n /\ Len(randy) = mc_n /\ Len(t_rand) = mc_n
        /\ rng.seeded => Len(rng.stream) = Len(entry.seed) - 2 * mc_n
        /\ count = Cardinality(StrictlyInside)
        /\ pi = Rat(4 * Cardinality(StrictlyInside), mc_n)

\* C2 witness: mc_method(2) is about to return 2: one point inside the circle,
\* one at distance exactly 1, which was not counted.
C2_Witness ==
    /\ mpc = "return" /\ mc_n = 2
    /\ Cardinality(OnCircle) = 1
    /\ Cardinality(StrictlyInside) = 1
    /\ pi = <<2, 1>>

\* C7: two runs of mc_method(n) that start from the same generator state return
\* the same estimate.
C7_SameSeedSameEstimate ==
    (entry.fn = "test" /\ Len(results) = 2) => results[1] = results[2]

\* C7 witness: both seeded runs of mc_method(2) are over and returned 2.
C7_Witness ==
    /\ entry.fn = "test" /\ entry.n = 2
    /\ Len(results) = 2
    /\ results[1] = <<2, 1>>

\* C8: a value returned by mc_method(n), n >= 1, is 4 * k / n for an integer k in
\* 0 .. n; for n = 1 it is exactly 0 or exactly 4.
C8_EstimateOnLattice ==
    \A j \in Returned :
        /\ calls[j].arg >= 1 => \E k \in 0 .. calls[j].arg : calls[j].ret = Rat(4 * k, calls[j].arg)
        /\ calls[j].arg = 1 => calls[j].ret \in {Zero, Four}

\* C8 witness: main's sweep called mc_method(1) twice; one call returned 0, the
\* other 4.
C8_Witness ==
    /\ Len(calls) >= 2
    /\ calls[1].arg = 1 /\ calls[1].ret = Zero
    /\ calls[2].arg = 1 /\ calls[2].ret = Four

\* the sweep's exponent range starts at a whole power of the base, as the
\* program's 10^1 does
WholeStart == entry.start >= 0 /\ entry.start % ExpDen = 0

\* Base^start <= m <= Base^stop; below a fractional or negative start exponent
\* truncation leaves no integer lower bound to state
InSweepRange(m) ==
    /\ WholeStart => Pow(m, ExpDen) >= Pow(Base, entry.start)
    /\ Pow(m, ExpDen) <= Pow(Base, entry.stop)

\* the sample counts handed to mc_method are the integer conversions of the
\* log-spaced values, Steps of them in a completed run, each within the range
SweepShape ==
    /\ pc # "start" => Len(test_n) = Steps
    /\ Len(calls) <= Len(test_n)
    /\ \A j \in 1 .. Len(calls) :
          calls[j].arg = ToInt(test_n[j]) /\ InSweepRange(calls[j].arg)
    /\ exit = 0 => Len(calls) = Steps

\* C3 as stated: the sample counts handed to the Estimator are strictly
\* ascending, Steps in number, and within [Base^start, Base^stop].
C3_Original ==
    entry.fn = "main" =>
        /\ SweepShape
        /\ \A j, k \in 1 .. Len(calls) : j < k => calls[j].arg < calls[k].arg

\* C3 amended: the sample counts handed to the Estimator are ascending but not
\* strictly (truncation maps neighbouring log-spaced values to the same
\* integer), Steps in number, and within [Base^start, Base^stop].
C3_SweepNonDecreasing ==
    entry.fn = "main" =>
        /\ SweepShape
        /\ \A j, k \in 1 .. Len(calls) : j < k => calls[j].arg <= calls[k].arg

\* C3 witness: a completed sweep whose first two sample counts are equal and
\* whose last one is larger.
C3_Witness ==
    /\ entry.fn = "main" /\ exit = 0
    /\ calls[1].arg = calls[2].arg
    /\ calls[1].arg < calls[Steps].arg

\* C4: in a run of main mc_method is invoked once per element of test_n, in the
\* order of test_n, and row j of the result set holds element j and the value
\* the j-th invocation returned.
C4_OneCallPerElementInOrder ==
    entry.fn = "main" =>
        /\ Len(calls) = it
        /\ \A j \in 1 .. Len(calls) : calls[j].arg = ToInt(test_n[j])
        /\ Len(pi_est) = (IF pc \in {"call", "aborted"} THEN it - 1 ELSE it)
        /\ \A j \in 1 .. Len(pi_est) : pi_est[j] = calls[j].ret
        /\ pc \in {"deviation", "print_df", "plots", "savefig", "show", "return", "done"} =>
              /\ Len(calls) = Steps
              /\ Len(df.n) = Steps /\ Len(df.estimate) = Steps
              /\ \A j \in 1 .. Steps : df.n[j] = test_n[j] /\ df.estimate[j] = calls[j].ret

\* C4 witness: main has returned and the first two rows hold different estimates.
C4_Witness ==
    /\ entry.fn = "main" /\ exit = 0
    /\ df.estimate[1] # df.estimate[2]
    /\ df.estimate[2] # df.estimate[Steps]

\* C5: in every row of the result set the recorded sample count n is a positive
\* integer and equals the number of points drawn for that row's estimate.
C5_RecordedCountIsDrawnCount ==
    (entry.fn = "main" /\ Len(df.n) > 0) =>
        \A j \in 1 .. Len(df.n) :
            /\ calls[j].points >= 1
            /\ df.n[j] >= 0
            /\ Pow(calls[j].points, ExpQ) = Pow(Base, df.n[j])

\* C6: for every row of the result set, deviation = pi - estimate.
C6_DeviationIsPiMinusEstimate ==
    (entry.fn = "main" /\ pc \in {"print_df", "plots", "savefig", "show", "return", "done"}) =>
        /\ Len(df.deviation) = Len(df.estimate)
        /\ \A j \in 1 .. Len(df.deviation) :
              /\ df.deviation[j].pic = 1
              /\ RatAdd(df.deviation[j].rat, df.estimate[j]) = Zero

\* C6 witness: a row with the over-estimate 4 and the negative deviation pi - 4.
C6_Witness ==
    /\ entry.fn = "main" /\ exit = 0
    /\ \E j \in 1 .. Steps :
          df.estimate[j] = Four /\ df.deviation[j] = [pic |-> 1, rat |-> <<-4, 1>>]

\* number of events of a kind in the output
Count(kind) == Cardinality({j \in 1 .. Len(out) : out[j].ev = kind})

\* C9: mc_method(0) raises ZeroDivisionError and nothing catches it: the call
\* prints and returns no estimate, and the process stops there with a failure
\* status: no further sample count, no result set, no rendering, no return 0.
C9_ZeroDivisionPropagates ==
    /\ \A j \in 1 .. Len(calls) : calls[j].arg = 0 => calls[j].ret = <<>>
    /\ (mc_n = 0 /\ mpc \notin {"idle", "returned"}) => mpc \in {"draw", "loop", "raised"}
    /\ (mpc = "loop" /\ mc_n = 0 /\ idx = Len(t_rand)) =>
          ENABLED McZeroDivision /\ ~ENABLED McRatio
    /\ exit = 0 => \A j \in 1 .. Len(calls) : calls[j].arg # 0
    /\ exc = "ZeroDivisionError" =>
          /\ calls[Len(calls)].arg = 0
          /\ Count("estimate") = Len(calls) - 1
          /\ Count("df") = 0 /\ Count("savefig") = 0 /\ Count("show") = 0
          /\ df = NoFrame
          /\ results = <<>>
          /\ exit = 1
          /\ ~ENABLED Next
          /\ entry.fn = "main" => it = Len(calls) /\ Len(pi_est) = it - 1

\* C9 witness: main's sweep handed 0 to mc_method and the process has died of it.
C9_Witness ==
    /\ entry.fn = "main"
    /\ exc = "ZeroDivisionError"
    /\ it < Len(test_n)

\* the events of a complete run of main, in order
Expected ==
    <<"test_n">> \o [j \in 1 .. Steps |-> "estimate"] \o <<"df", "savefig", "show">>

\* no sample count of the sweep is 0
FailureFree ==
    entry.fn = "main" /\
    \A j \in 1 .. Steps : ToInt(Logspace(entry.start, entry.stop, Steps)[j]) >= 1

\* the order of main's observable events
EventOrder ==
    entry.fn = "main" =>
        /\ Len(out) <= Len(Expected)
        /\ \A j \in 1 .. Len(out) : out[j].ev = Expected[j]
        /\ Len(calls) >= 1 => Count("test_n") = 1
        /\ Count("estimate") =
              Cardinality(Returned) + (IF mpc = "return" THEN 1 ELSE 0)
        /\ \A j \in Returned : out[j + 1].val = calls[j].ret
        /\ mpc = "draw" => Count("estimate") = Len(calls) - 1
        /\ Count("df") = 1 => Count("estimate") = Steps /\ out[Steps + 2].val = df
        /\ Count("savefig") = 1 => out[Steps + 3].val = <<"estimation_of_pi.png">>
        /\ exit = 0 => Len(out) = Len(Expected)

\* C10: in a failure-free run of main the events come in this order: the sample
\* sizes once, before any call; each estimate from its own call, before the next
\* call; the result set once, after the last estimate; the saved image; the
\* display; and then main returns 0, which it eventually does.
C10_EventOrderAndTermination ==
    /\ [](FailureFree => EventOrder)
    /\ (FailureFree ~> exit = 0)

\* C10 witness: main has returned 0 after a complete, failure-free run.
C10_Witness ==
    /\ FailureFree
    /\ exit = 0
    /\ Len(out) = Steps + 4
    /\ out[Len(out)].ev = "show"

====
